---- MODULE Spec2Model ----
(***************************************************************************)
(* rtalk-server (workshop/lab4/rtalk-finished): the session registry, the  *)
(* per-connection actor task and the broadcast fan-out of main.rs, as a    *)
(* state machine.  One step of the model is one stretch of a task that     *)
(* runs without giving other threads a way in: a registry call made under  *)
(* the RwLock, a channel operation, a completed stream write.              *)
(***************************************************************************)
EXTENDS Integers, Sequences, FiniteSets

\* ------------------------------------------------------------------ bounds
\* What the peers do in a run, counted together: connections accepted,
\* inbound events dispatched, stream faults (failed write, decode error,
\* unsupported event, closed stream).
MaxInputs == 5
\* Capacity of a user's mpsc channel in the model (mpsc::channel(100) in the
\* code); the behaviour at "full" is the same at any capacity.
QueueCap == 2

Ids == 1..MaxInputs

\* ------------------------------------------------------------------ inputs
Names == {"bob"}
Texts == {"hi"}
Addrs == {"1.2.3.4:5"}
None == "None"

VARIABLES
    counter,    \* State.counter
    users,      \* State.users: id -> [name, ip]; the entry's sender is queue[id]
    queue,      \* per channel: the events buffered between senders and rx
    rxOpen,     \* per channel: the actor's receiver rx has not been dropped
    pc,         \* per actor task: where it is in the loop
    cur,        \* per actor task: the event it is writing or broadcasting
    fut,        \* per actor task: the send_event futures join_all still holds
    net,        \* per connection: state of the inbound half of the stream
    written,    \* per connection: events written to the stream, in order
    panic,      \* per actor task: why it panicked, if it did
    peer,       \* per connection: the address accept() returned for it
    addrDebug,  \* the build: what {:?} prints for a SocketAddr
    faults,     \* number of stream faults so far
    delivered,  \* history: per channel, every event ever queued on it, in order
    issued,     \* history: ids returned by add_user, in order of return
    log         \* history: per connection, the events it dispatched and their snapshots

vars == <<counter, users, queue, rxOpen, pc, cur, fut, net, written, panic,
          peer, addrDebug, faults, delivered, issued, log>>

NoEvent == [kind |-> "none", label |-> <<>>, text |-> "", from |-> 0, seq |-> 0]
NoPanic == [kind |-> "none", dest |-> 0]
NoFut == [d \in {} |-> "new"]

\* ------------------------------------------------------ pure functions
\* What {:?} prints for a std::net::SocketAddr is left to the toolchain the
\* server is built with: the derived form of the enum, V4(1.2.3.4:5), or the
\* same text as {}.
DebugImpls == {"derived", "display"}

\* {} of a SocketAddr: the address as text (strings are sequences of pieces)
Display_SocketAddr(ip) == <<ip>>

\* {:?} of a SocketAddr
Debug_SocketAddr(ip) ==
    IF addrDebug = "derived" THEN <<"V4(", ip, ")">> ELSE Display_SocketAddr(ip)

\* User::get_name: format!("{} [{:?}]", name, ip) / format!("anonymous [{}]", ip)
User_get_name(user) ==
    IF user.name = None
    THEN <<"anonymous", " [">> \o Display_SocketAddr(user.ip) \o <<"]">>
    ELSE <<user.name, " [">> \o Debug_SocketAddr(user.ip) \o <<"]">>

\* State::get_name: users.get(&id).unwrap().get_name()
State_get_name(id) == User_get_name(users[id])

\* (mutant: update_user sets the name of every user)
State_update_user_All(id, name) ==
    [i \in DOMAIN users |-> [users[i] EXCEPT !.name = name]]

\* State::update_user: the registry after user.name = Some(name)
State_update_user(id, name) == [users EXCEPT ![id].name = name]

\* (mutant: remove_user clears the map)
Users_remove_All(id) == [i \in {} |-> users[i]]

\* users.remove(&id) of Session::remove_user
Users_remove(id) == [i \in DOMAIN users \ {id} |-> users[i]]

\* Session::user_ids: the keys of the map at the instant of the call
user_ids == DOMAIN users

\* rtalk_codec::Event, the three server-to-client kinds
\* (from, seq name the inbound event that caused it: the seq-th event that
\* connection `from` dispatched; the code's events do not carry them)
Joined(label, from, seq) ==
    [kind |-> "Joined", label |-> label, text |-> "", from |-> from, seq |-> seq]
Left(label, from, seq) ==
    [kind |-> "Left", label |-> label, text |-> "", from |-> from, seq |-> seq]
MessageReceived(who, msg, from, seq) ==
    [kind |-> "MessageReceived", label |-> who, text |-> msg, from |-> from,
     seq |-> seq]

\* (mutant: the channel hands out the newest event first)
Enqueue_Front(q, evt) == <<evt>> \o q

\* Sender::send on a channel with room: the event goes to the back
Enqueue(q, evt) == Append(q, evt)

\* (mutant: the id is taken from the size of the map, not from the counter)
NextId_FromLen == Cardinality(DOMAIN users) + 1

\* the id State::add_user assigns: self.counter += 1; let id = self.counter
NextId == counter + 1

\* the destinations broadcast builds futures for: user_ids().into_iter()
BroadcastTargets == user_ids

RECURSIVE SumLen(_, _)
SumLen(f, S) ==
    IF S = {} THEN 0
    ELSE LET x == CHOOSE y \in S : TRUE IN Len(f[x]) + SumLen(f, S \ {x})

\* inbound events dispatched so far, over all connections
Dispatched == SumLen(log, Ids)

\* what the peers have done so far
Inputs == Len(issued) + Dispatched + faults

\* how often the event (from, seq) occurs in a sequence of events
RECURSIVE Count(_, _, _)
Count(sq, from, seq) ==
    IF sq = <<>> THEN 0
    ELSE (IF Head(sq).from = from /\ Head(sq).seq = seq THEN 1 ELSE 0)
         + Count(Tail(sq), from, seq)

Min(S) == CHOOSE x \in S : \A y \in S : x <= y

Terminated(a) == pc[a] \in {"done", "panicked"}

\* (mutant: send_event keeps its read guard while sender.send(evt) is awaited)
Guards_AcrossSend(a) ==
    {d \in DOMAIN fut[a] : fut[a][d] \in {"cloned", "pending"}}

\* The guards on the registry lock that the actor task of connection a holds
\* while it is not running: none.  Every guard is a temporary of one
\* statement (get_name, update_user, remove_user, user_ids) or is dropped at
\* the end of the block that clones the sender, before sender.send(evt) is
\* awaited; network.send is awaited with no registry call around it.
Guards(a) == {}

\* state.write() returns: no other task holds a guard
WriteLockFree == \A b \in Ids : Guards(b) = {}

\* ------------------------------------------------------------------ Init
\* Session::new: counter 0, no users; nothing spawned yet.
Init ==
    /\ counter = 0
    /\ users = [i \in {} |-> [name |-> None, ip |-> ""]]
    /\ queue = [i \in Ids |-> <<>>]
    /\ rxOpen = [i \in Ids |-> FALSE]
    /\ pc = [i \in Ids |-> "unspawned"]
    /\ cur = [i \in Ids |-> NoEvent]
    /\ fut = [i \in Ids |-> NoFut]
    /\ net = [i \in Ids |-> "open"]
    /\ written = [i \in Ids |-> <<>>]
    /\ panic = [i \in Ids |-> NoPanic]
    /\ peer = [i \in Ids |-> ""]
    /\ addrDebug \in DebugImpls
    /\ faults = 0
    /\ delivered = [i \in Ids |-> <<>>]
    /\ issued = <<>>
    /\ log = [i \in Ids |-> <<>>]

\* --------------------------------------------------------------- actions
\* main's loop body: accept, then Session::add_user -> State::add_user, all
\* of it under the write lock: mint the id, create the channel, spawn the
\* actor, insert the user.
add_user(ip) ==
    /\ Inputs < MaxInputs
    /\ WriteLockFree
    /\ LET id == NextId IN
        /\ counter' = id
        /\ users' = [i \in DOMAIN users \cup {id} |->
                        IF i = id THEN [name |-> None, ip |-> ip] ELSE users[i]]
        /\ rxOpen' = [rxOpen EXCEPT ![id] = TRUE]
        /\ pc' = [pc EXCEPT ![id] = "select"]
        /\ issued' = Append(issued, id)
        /\ peer' = [peer EXCEPT ![id] = ip]
    /\ UNCHANGED <<queue, cur, fut, net, written, panic, addrDebug, faults,
                   delivered, log>>

\* The task ends (break or panic): everything it owns is dropped, its
\* receiver and its stream included.
EndTask(a, how, why) ==
    /\ pc' = [pc EXCEPT ![a] = how]
    /\ panic' = [panic EXCEPT ![a] = why]
    /\ rxOpen' = [rxOpen EXCEPT ![a] = FALSE]
    /\ cur' = [cur EXCEPT ![a] = NoEvent]
    /\ fut' = [fut EXCEPT ![a] = NoFut]
    /\ queue' = [queue EXCEPT ![a] = <<>>]
    /\ net' = [net EXCEPT ![a] = "closed"]

\* select! arm 1: rx.next() yields Some(event); network.send(event) starts.
RecvQueue(a) ==
    /\ pc[a] = "select"
    /\ queue[a] # <<>>
    /\ cur' = [cur EXCEPT ![a] = Head(queue[a])]
    /\ queue' = [queue EXCEPT ![a] = Tail(queue[a])]
    /\ pc' = [pc EXCEPT ![a] = "writing"]
    /\ UNCHANGED <<counter, users, rxOpen, fut, net, written, panic, faults, delivered, issued, peer, addrDebug, log>>

\* network.send(event).await returns Ok: back to the top of the loop.
WriteOk(a) ==
    /\ pc[a] = "writing"
    /\ written' = [written EXCEPT ![a] = Append(written[a], cur[a])]
    /\ cur' = [cur EXCEPT ![a] = NoEvent]
    /\ pc' = [pc EXCEPT ![a] = "select"]
    /\ UNCHANGED <<counter, users, queue, rxOpen, fut, net, panic, faults, delivered, issued, peer, addrDebug, log>>

\* network.send(event).await returns Err: expect("Message send failed.")
\* panics the task.  The registry is not touched.
WriteFail(a) ==
    /\ pc[a] = "writing"
    /\ Inputs < MaxInputs
    /\ faults' = faults + 1
    /\ EndTask(a, "panicked", [kind |-> "write", dest |-> 0])
    /\ UNCHANGED <<counter, users, written, delivered, issued, peer, addrDebug, log>>

\* A registry call of an actor for an id that is not in the map: the unwrap()
\* on users.get / users.remove panics the task.
Unwrap(a) ==
    /\ EndTask(a, "panicked", [kind |-> "unwrap", dest |-> 0])
    /\ UNCHANGED <<users, log>>

\* The arm has its event ready: broadcast is called next.  (arg is what the
\* inbound event carried: the name, the text, or nothing.)
Dispatch(a, evt, arg) ==
    /\ cur' = [cur EXCEPT ![a] = evt]
    /\ log' = [log EXCEPT ![a] = Append(@, [ev |-> evt, arg |-> arg,
                                            snapped |-> FALSE, snap |-> {}])]
    /\ pc' = [pc EXCEPT ![a] = "snapshot"]
    /\ UNCHANGED <<queue, rxOpen, fut, net, panic>>

\* select! arm 2, Some(Ok(RequestJoin(name))): update_user under the write
\* lock; the Joined event is ready to broadcast.
RecvRequestJoin(a, name) ==
    /\ pc[a] = "select"
    /\ net[a] # "eof"
    /\ Inputs < MaxInputs
    /\ WriteLockFree
    /\ IF a \in DOMAIN users
       THEN /\ users' = State_update_user(a, name)
            /\ Dispatch(a, Joined(User_get_name(users'[a]), a, Len(log[a]) + 1), name)
       ELSE Unwrap(a)
    /\ UNCHANGED <<counter, written, faults, delivered, issued, peer, addrDebug>>

\* select! arm 2, Some(Ok(MessageSend(msg))): get_name under the read lock.
RecvMessageSend(a, msg) ==
    /\ pc[a] = "select"
    /\ net[a] # "eof"
    /\ Inputs < MaxInputs
    /\ IF a \in DOMAIN users
       THEN /\ users' = users
            /\ Dispatch(a, MessageReceived(State_get_name(a), msg, a, Len(log[a]) + 1),
                        msg)
       ELSE Unwrap(a)
    /\ UNCHANGED <<counter, written, faults, delivered, issued, peer, addrDebug>>

\* select! arm 2, Some(Ok(Leave())): remove_user under the write lock.
RecvLeave(a) ==
    /\ pc[a] = "select"
    /\ net[a] # "eof"
    /\ Inputs < MaxInputs
    /\ WriteLockFree
    /\ IF a \in DOMAIN users
       THEN /\ users' = Users_remove(a)
            /\ Dispatch(a, Left(State_get_name(a), a, Len(log[a]) + 1), "")
       ELSE Unwrap(a)
    /\ UNCHANGED <<counter, written, faults, delivered, issued, peer, addrDebug>>

\* select! arm 2, Some(Ok(any other event kind)): unimplemented!() panics.
RecvOther(a) ==
    /\ pc[a] = "select"
    /\ Inputs < MaxInputs
    /\ faults' = faults + 1
    /\ net[a] # "eof"
    /\ EndTask(a, "panicked", [kind |-> "unimplemented", dest |-> 0])
    /\ UNCHANGED <<counter, users, written, delivered, issued, peer, addrDebug, log>>

\* select! arm 2, Some(Err(_)): `if let Some(Ok(event))` does not match, the
\* arm does nothing and the loop goes round.
RecvDecodeError(a) ==
    /\ pc[a] = "select"
    /\ Inputs < MaxInputs
    /\ faults' = faults + 1
    /\ net[a] = "open"
    /\ UNCHANGED <<counter, users, queue, rxOpen, pc, cur, fut, net, written, panic,
                   delivered, issued, peer, addrDebug, log>>

\* select! arm 2, None (the peer closed the stream): the arm does nothing and
\* the loop goes round; every later network.next() yields None again, which
\* changes no state at all.
RecvEof(a) ==
    /\ pc[a] = "select"
    /\ Inputs < MaxInputs
    /\ faults' = faults + 1
    /\ net[a] # "eof"
    /\ net' = [net EXCEPT ![a] = "eof"]
    /\ UNCHANGED <<counter, users, queue, rxOpen, pc, cur, fut, written, panic,
                   delivered, issued, peer, addrDebug, log>>

\* Session::broadcast, first half: user_ids() under the read lock, one
\* send_event future per id.
Snapshot(a) ==
    /\ pc[a] = "snapshot"
    /\ fut' = [fut EXCEPT ![a] = [d \in BroadcastTargets |-> "new"]]
    /\ log' = [log EXCEPT ![a][cur[a].seq].snapped = TRUE,
                          ![a][cur[a].seq].snap = BroadcastTargets]
    /\ pc' = [pc EXCEPT ![a] = "broadcast"]
    /\ UNCHANGED <<counter, users, queue, rxOpen, cur, net, written, panic, faults, delivered, issued, peer, addrDebug>>

\* join_all polls its futures in order: a future is polled for the first time
\* once every future before it has either finished or returned Pending.
FirstPoll(a) == {d \in DOMAIN fut[a] : fut[a][d] # "pending"}

\* (mutant: the recipients are read from the live registry while sending,
\* not fixed by the snapshot)
Lookup_Live(a, d) ==
    /\ pc[a] = "broadcast"
    /\ d \in DOMAIN users
    /\ Count(delivered[d], a, cur[a].seq) = 0
    /\ d \in DOMAIN fut[a] => fut[a][d] = "new"
    /\ \A e \in DOMAIN fut[a] : fut[a][e] # "cloned"
    /\ fut' = [fut EXCEPT ![a] =
                 [e \in DOMAIN fut[a] \cup {d} |->
                    IF e = d THEN "cloned" ELSE fut[a][e]]]
    /\ UNCHANGED <<counter, users, queue, rxOpen, pc, cur, net, written, panic,
                   faults, delivered, issued, peer, addrDebug, log>>

\* Session::send_event, first half: look the user up under the read lock and
\* clone its sender, or return if the id is gone.
Lookup(a, d) ==
    /\ pc[a] = "broadcast"
    /\ FirstPoll(a) # {}
    /\ d = Min(FirstPoll(a))
    /\ fut[a][d] = "new"
    /\ fut' = [fut EXCEPT ![a] =
                 IF d \in DOMAIN users
                 THEN [fut[a] EXCEPT ![d] = "cloned"]
                 ELSE [e \in DOMAIN fut[a] \ {d} |-> fut[a][e]]]
    /\ UNCHANGED <<counter, users, queue, rxOpen, pc, cur, net, written, panic,
                   faults, delivered, issued, peer, addrDebug, log>>

\* which send_event future may run its sender.send(evt) now
MaySend(a, d) ==
    /\ pc[a] = "broadcast"
    /\ d \in DOMAIN fut[a]
    /\ \/ fut[a][d] = "cloned"
       \/ fut[a][d] = "pending" /\ FirstPoll(a) = {}

\* (mutant: the channel takes the event whether it has room or not)
SendOk_Unbounded(a, d) ==
    /\ MaySend(a, d)
    /\ rxOpen[d]
    /\ queue' = [queue EXCEPT ![d] = Enqueue(queue[d], cur[a])]
    /\ delivered' = [delivered EXCEPT ![d] = Append(delivered[d], cur[a])]
    /\ fut' = [fut EXCEPT ![a] = [e \in DOMAIN fut[a] \ {d} |-> fut[a][e]]]
    /\ UNCHANGED <<counter, users, rxOpen, pc, cur, net, written, panic, faults,
                   issued, peer, addrDebug, log>>

\* sender.send(evt).await on an open channel with room: the event is queued
\* and the future is done.
SendOk(a, d) ==
    /\ MaySend(a, d)
    /\ rxOpen[d]
    /\ Len(queue[d]) < QueueCap
    /\ queue' = [queue EXCEPT ![d] = Enqueue(queue[d], cur[a])]
    /\ delivered' = [delivered EXCEPT ![d] = Append(delivered[d], cur[a])]
    /\ fut' = [fut EXCEPT ![a] = [e \in DOMAIN fut[a] \ {d} |-> fut[a][e]]]
    /\ UNCHANGED <<counter, users, rxOpen, pc, cur, net, written, panic, faults, issued, peer, addrDebug, log>>

\* sender.send(evt).await on an open channel that is full: the future returns
\* Pending and waits for room (or for the channel to close).
SendPending(a, d) ==
    /\ MaySend(a, d)
    /\ fut[a][d] = "cloned"
    /\ rxOpen[d]
    /\ Len(queue[d]) >= QueueCap
    /\ fut' = [fut EXCEPT ![a][d] = "pending"]
    /\ UNCHANGED <<counter, users, queue, rxOpen, pc, cur, net, written, panic,
                   faults, delivered, issued, peer, addrDebug, log>>

\* sender.send(evt).await on a channel whose receiver was dropped: Err, and
\* expect("Could not queue event to send") panics the broadcasting task.
SendClosed(a, d) ==
    /\ MaySend(a, d)
    /\ ~rxOpen[d]
    /\ EndTask(a, "panicked", [kind |-> "send", dest |-> d])
    /\ UNCHANGED <<counter, users, written, faults, delivered, issued, peer, addrDebug, log>>

\* join_all is done, broadcast returns to the arm that called it.
BroadcastReturn(a) ==
    /\ pc[a] = "broadcast"
    /\ DOMAIN fut[a] = {}
    /\ cur[a].kind # "Left"
    /\ pc' = [pc EXCEPT ![a] = "select"]
    /\ cur' = [cur EXCEPT ![a] = NoEvent]
    /\ UNCHANGED <<counter, users, queue, rxOpen, fut, net, written, panic,
                   faults, delivered, issued, peer, addrDebug, log>>

\* ... and in the Leave arm the next statement is break: the task ends.
LeaveBreak(a) ==
    /\ pc[a] = "broadcast"
    /\ DOMAIN fut[a] = {}
    /\ cur[a].kind = "Left"
    /\ EndTask(a, "done", NoPanic)
    /\ UNCHANGED <<counter, users, written, faults, delivered, issued, peer, addrDebug, log>>

\* every step the actor task of connection a can take
Actor(a) ==
    \/ RecvQueue(a)
    \/ WriteOk(a)
    \/ WriteFail(a)
    \/ \E name \in Names : RecvRequestJoin(a, name)
    \/ \E msg \in Texts : RecvMessageSend(a, msg)
    \/ RecvLeave(a)
    \/ RecvOther(a)
    \/ RecvDecodeError(a)
    \/ RecvEof(a)
    \/ Snapshot(a)
    \/ \E d \in Ids : Lookup(a, d)
    \/ \E d \in Ids : SendOk(a, d)
    \/ \E d \in Ids : SendPending(a, d)
    \/ \E d \in Ids : SendClosed(a, d)
    \/ BroadcastReturn(a)
    \/ LeaveBreak(a)

Next ==
    \/ \E ip \in Addrs : add_user(ip)
    \/ \E a \in Ids : RecvQueue(a)
    \/ \E a \in Ids : WriteOk(a)
    \/ \E a \in Ids : WriteFail(a)
    \/ \E a \in Ids, name \in Names : RecvRequestJoin(a, name)
    \/ \E a \in Ids, msg \in Texts : RecvMessageSend(a, msg)
    \/ \E a \in Ids : RecvLeave(a)
    \/ \E a \in Ids : RecvOther(a)
    \/ \E a \in Ids : RecvDecodeError(a)
    \/ \E a \in Ids : RecvEof(a)
    \/ \E a \in Ids : Snapshot(a)
    \/ \E a \in Ids, d \in Ids : Lookup(a, d)
    \/ \E a \in Ids, d \in Ids : SendOk(a, d)
    \/ \E a \in Ids, d \in Ids : SendPending(a, d)
    \/ \E a \in Ids, d \in Ids : SendClosed(a, d)
    \/ \E a \in Ids : BroadcastReturn(a)
    \/ \E a \in Ids : LeaveBreak(a)

Spec == Init /\ [][Next]_vars

\* The steps an actor takes on its own, without input from its peer: tokio
\* runs every task that is ready, and here every stream write completes.
Internal(a) ==
    \/ RecvQueue(a)
    \/ WriteOk(a)
    \/ Snapshot(a)
    \/ \E d \in Ids : Lookup(a, d)
    \/ \E d \in Ids : SendOk(a, d)
    \/ \E d \in Ids : SendPending(a, d)
    \/ BroadcastReturn(a)

\* The runs in which every connection stays: no stream fails or closes, no
\* peer sends Leave or an unsupported event, every peer keeps reading.
LiveNext ==
    \/ \E ip \in Addrs : add_user(ip)
    \/ \E a \in Ids, name \in Names : RecvRequestJoin(a, name)
    \/ \E a \in Ids, msg \in Texts : RecvMessageSend(a, msg)
    \/ \E a \in Ids : RecvQueue(a)
    \/ \E a \in Ids : WriteOk(a)
    \/ \E a \in Ids : Snapshot(a)
    \/ \E a \in Ids, d \in Ids : Lookup(a, d)
    \/ \E a \in Ids, d \in Ids : SendOk(a, d)
    \/ \E a \in Ids, d \in Ids : SendPending(a, d)
    \/ \E a \in Ids : BroadcastReturn(a)

LiveSpec == Init /\ [][LiveNext]_vars /\ \A a \in Ids : WF_vars(Internal(a))

\* ------------------------------------------------------------ properties
\* what is recorded of the k-th event connection a dispatched
Record(a, k) ==
    IF k \in 1..Len(log[a]) THEN log[a][k]
    ELSE [ev |-> NoEvent, arg |-> "", snapped |-> FALSE, snap |-> {}]

\* the events of a sequence that connection `from` caused come in the order
\* in which `from` dispatched them
InSendOrder(sq) ==
    \A i, j \in 1..Len(sq) :
        (i < j /\ sq[i].from = sq[j].from) => sq[i].seq < sq[j].seq

\* the actor is parked inside broadcast: every future it still holds has
\* returned Pending on a full, open channel
Suspended(a) ==
    /\ pc[a] = "broadcast"
    /\ DOMAIN fut[a] # {}
    /\ \A d \in DOMAIN fut[a] :
        fut[a][d] = "pending" /\ rxOpen[d] /\ Len(queue[d]) >= QueueCap

\* C1: when a connection's actor died on a failed write to its own stream,
\* no other connection's actor panics because of it: a later broadcast that
\* has the dead connection among its recipients does not panic.
C1_FailureIsolation ==
    \A b \in Ids :
        panic[b].kind = "send" => panic[panic[b].dest].kind # "write"

\* C2: a recipient that left (Leave: removed, actor ended) between a
\* broadcast's snapshot and the end of its send_event costs the broadcaster
\* nothing: the broadcaster does not panic on that delivery.
C2_RemovedRecipientDropped ==
    \A b \in Ids :
        panic[b].kind = "send" => pc[panic[b].dest] # "done"

\* C3: an actor whose own broadcast event waits in its own outbound queue is
\* never parked on the full queues of other connections only: writing that
\* event to its stream does not wait for another connection to drain.
C3_IsolationUnderBackpressure ==
    \A a \in Ids :
        (Suspended(a) /\ Count(queue[a], a, cur[a].seq) = 1)
            => a \in DOMAIN fut[a]

\* C4: in the runs where every connection stays and every actor is scheduled,
\* once the broadcast of a MessageSend has taken its snapshot, every user of
\* the snapshot eventually has exactly one copy of its MessageReceived
\* written to its stream.
C4_BroadcastCompleteness ==
    \A a \in Ids, k \in 1..MaxInputs :
        (Record(a, k).ev.kind = "MessageReceived" /\ Record(a, k).snapped)
        ~> (\A u \in Record(a, k).snap : Count(written[u], a, k) = 1)

\* C5: every event was queued at most once per channel, and only on channels
\* of ids that were in the registry when its broadcast took the snapshot.
C5_RecipientSet ==
    \A u \in Ids : \A i \in 1..Len(delivered[u]) :
        LET e == delivered[u][i] IN
            /\ Len(log[e.from]) >= e.seq
            /\ log[e.from][e.seq].snapped
            /\ u \in log[e.from][e.seq].snap
            /\ Count(delivered[u], e.from, e.seq) = 1

\* a broadcast went to one user and, after its snapshot, another user
\* registered and got nothing of it
C5_Witness ==
    \E a \in Ids, u \in Ids :
        /\ Len(log[a]) >= 1 /\ log[a][1].snapped
        /\ log[a][1].snap # {}
        /\ pc[a] = "select"
        /\ u \in DOMAIN users /\ u \notin log[a][1].snap
        /\ \A v \in log[a][1].snap : Count(delivered[v], a, 1) = 1

\* C6: when an actor has terminated, by the break of the Leave arm or by a
\* failed write to its stream, its user is not in the registry and its Left
\* has been broadcast.
C6_TerminatedIsRemoved ==
    \A a \in Ids :
        (pc[a] = "done" \/ panic[a].kind = "write") =>
            /\ a \notin DOMAIN users
            /\ \E k \in 1..Len(log[a]) :
                log[a][k].ev.kind = "Left" /\ log[a][k].snapped

\* C7: once the stream has ended (network.next() yielded None) the actor has
\* terminated or still has a step to take towards it.
C7_TerminatesOnStreamEnd ==
    \A a \in Ids :
        net[a] = "eof" => (Terminated(a) \/ ENABLED Actor(a))

\* C8: once A's actor has processed Leave and ended, A is not in the registry,
\* A was no recipient of its own Left, and every user of the snapshot that is
\* still in the registry with a running actor had exactly one Left with A's
\* final label queued.
C8_LeaveRemovesAndAnnounces ==
    \A a \in Ids : \A k \in 1..Len(log[a]) :
        (log[a][k].ev.kind = "Left" /\ Terminated(a)) =>
            /\ a \notin DOMAIN users
            /\ a \notin log[a][k].snap
            /\ Count(delivered[a], a, k) = 0
            /\ \A u \in DOMAIN users \cap log[a][k].snap :
                ~Terminated(u) => Count(delivered[u], a, k) = 1

\* C9: the ids add_user returned are strictly increasing in the order of
\* return (so no id is ever returned twice, removed or not).
C9_UniqueIncreasingIds ==
    \A i, j \in 1..Len(issued) : i < j => issued[i] < issued[j]

\* a user was removed by Leave while the registry was otherwise empty, and a
\* later registration got a fresh id
C9_Witness ==
    \E a \in Ids, k \in 1..MaxInputs :
        /\ Len(issued) >= 2
        /\ Len(log[a]) >= k
        /\ log[a][k].ev.kind = "Left" /\ log[a][k].snapped
        /\ log[a][k].snap = {}
        /\ DOMAIN users # {}

\* C10: on every channel and on every stream, the events one connection
\* caused come in the order in which that connection sent them.
C10_PerSenderOrder ==
    \A u \in Ids : InSendOrder(delivered[u]) /\ InSendOrder(written[u])

\* a recipient got Joined, MessageReceived and Left of another connection
C10_Witness ==
    \E a \in Ids, u \in Ids :
        /\ a # u
        /\ Len(written[u]) = 3
        /\ \A i \in 1..3 : written[u][i].from = a /\ written[u][i].seq = i
        /\ written[u][1].kind = "Joined"
        /\ written[u][2].kind = "MessageReceived"
        /\ written[u][3].kind = "Left"

\* C11: in the runs where every connection stays and every actor is
\* scheduled, when a connection has processed RequestJoin(n) twice in a row
\* (its k-th and (k+1)-th event) and the second broadcast has its snapshot,
\* eventually the two Joined carry the same label and every user of both
\* snapshots has been queued exactly one copy of each.
C11_RenameNotDeduplicated ==
    \A a \in Ids, k \in 1..(MaxInputs - 1) :
        (/\ Record(a, k).ev.kind = "Joined"
         /\ Record(a, k + 1).ev.kind = "Joined"
         /\ Record(a, k).arg = Record(a, k + 1).arg
         /\ Record(a, k + 1).snapped)
        ~> (/\ Record(a, k).ev.label = Record(a, k + 1).ev.label
            /\ \A u \in Record(a, k).snap \cap Record(a, k + 1).snap :
                /\ Count(delivered[u], a, k) = 1
                /\ Count(delivered[u], a, k + 1) = 1)

\* the RequestJoin events among the first k events connection a dispatched
JoinsUpTo(a, k) == {j \in 1..k : log[a][j].ev.kind = "Joined"}

Max(S) == CHOOSE x \in S : \A y \in S : x >= y

\* the label the broadcasts of connection a are to carry at its k-th event:
\* "anonymous [<addr>]" before any RequestJoin, "<name> [<addr>]" with the
\* name last requested from then on, <addr> being the address as text
LabelAt(a, k) ==
    IF JoinsUpTo(a, k) = {}
    THEN <<"anonymous", " [", peer[a], "]">>
    ELSE <<log[a][Max(JoinsUpTo(a, k))].arg, " [", peer[a], "]">>

\* C12: every Joined, Left and MessageReceived a connection caused carries
\* "anonymous [<addr>]" if no RequestJoin was processed on it yet, and
\* "<name> [<addr>]" with the most recently requested name otherwise, <addr>
\* being the remote address the connection was registered with.
C12_LabelFormatting ==
    \A a \in Ids : \A k \in 1..Len(log[a]) :
        log[a][k].ev.label = LabelAt(a, k)

\* C13: in the runs where every connection stays and every actor is
\* scheduled, once the broadcast of a RequestJoin or MessageSend of
\* connection A has its snapshot, A is in the snapshot and eventually the
\* event has been queued on A's own channel and written to A's own stream,
\* once.
C13_SelfDelivery ==
    \A a \in Ids, k \in 1..MaxInputs :
        (/\ Record(a, k).ev.kind \in {"Joined", "MessageReceived"}
         /\ Record(a, k).snapped)
        ~> (/\ a \in Record(a, k).snap
            /\ Count(delivered[a], a, k) = 1
            /\ Count(written[a], a, k) = 1)

\* the actors of S wait for each other: each is inside broadcast with a future
\* that returned Pending on the full channel of an actor of S, and no actor
\* of S is in select!, where alone a channel is drained
Deadlocked(S) ==
    \A a \in S :
        /\ pc[a] = "broadcast"
        /\ \E d \in S \cap DOMAIN fut[a] :
            fut[a][d] = "pending" /\ rxOpen[d] /\ Len(queue[d]) >= QueueCap

\* C14: in the runs where every stream write completes and no connection
\* fails, no actor is ever suspended for good inside broadcast: not on its
\* own full queue, and not in a cycle of actors suspended on each other's
\* full queues.
C14_DeadlockFreedom ==
    \A S \in SUBSET Ids : S # {} => ~Deadlocked(S)

\* the actor of connection a can still come to a registry call with its id:
\* it is in the loop and not past the remove_user of the Leave arm
MayCallRegistry(a) ==
    \/ pc[a] \in {"select", "writing"}
    \/ pc[a] \in {"snapshot", "broadcast"} /\ cur[a].kind # "Left"

\* C15: no actor has panicked in the unwrap() of a registry call (get_name,
\* update_user, remove_user with its own id), and every actor that can still
\* make such a call finds its id in the registry.
C15_RegistryLookupsNeverFail ==
    \A a \in Ids :
        /\ panic[a].kind # "unwrap"
        /\ MayCallRegistry(a) => a \in DOMAIN users

\* an actor made all three calls (update_user, get_name, remove_user) and
\* ended, while another connection is registered and running
C15_Witness ==
    \E a \in Ids, b \in Ids :
        /\ a # b
        /\ pc[a] = "done"
        /\ \E i, j, k \in 1..Len(log[a]) :
            /\ log[a][i].ev.kind = "Joined"
            /\ log[a][j].ev.kind = "MessageReceived"
            /\ log[a][k].ev.kind = "Left"
        /\ MayCallRegistry(b)

Dispatches(a, kind) ==
    /\ Len(log'[a]) = Len(log[a]) + 1
    /\ log'[a][Len(log'[a])].ev.kind = kind

\* C17: a step that processes RequestJoin on connection A changes A's name
\* and nothing else of the registry: not the set of ids, not the counter, not
\* A's address or outbound queue, no field of another user.  A step that
\* removes A (Leave) removes A's entry and leaves the other entries and the
\* counter as they were.  In every step, a user's name changes only if the
\* step processes a RequestJoin on that user's connection, and its address
\* never changes.
C17_RegistryFrame ==
    [][\A a \in Ids :
        /\ Dispatches(a, "Joined") =>
            /\ DOMAIN users' = DOMAIN users
            /\ counter' = counter
            /\ users'[a].ip = users[a].ip
            /\ queue' = queue /\ rxOpen' = rxOpen
            /\ \A u \in DOMAIN users \ {a} : users'[u] = users[u]
        /\ Dispatches(a, "Left") =>
            /\ DOMAIN users' = DOMAIN users \ {a}
            /\ counter' = counter
            /\ \A u \in DOMAIN users' : users'[u] = users[u]
        /\ (a \in DOMAIN users /\ a \in DOMAIN users') =>
            /\ users'[a].ip = users[a].ip /\ users[a].ip = peer[a]
            /\ users'[a].name # users[a].name => Dispatches(a, "Joined")
      ]_vars

\* a named user, an anonymous user and a removed one: RequestJoin and Leave
\* were processed while other users were registered
C17_Witness ==
    \E a \in DOMAIN users, b \in DOMAIN users, c \in Ids \ DOMAIN users :
        /\ users[a].name \in Names
        /\ users[b].name = None
        /\ \E k \in 1..Len(log[c]) : log[c][k].ev.kind = "Left"
        /\ \E k \in 1..Len(log[a]) :
            log[a][k].ev.kind = "Joined" /\ {a, b} \subseteq log[a][k].snap

\* C18: no channel ever holds more events than its capacity, and the event
\* of a send that found the channel full is neither queued nor lost: the
\* sender's future still holds it and the channel has not got it.
C18_BoundedQueues ==
    /\ \A u \in Ids : Len(queue[u]) <= QueueCap
    /\ \A a \in Ids : \A d \in DOMAIN fut[a] :
        /\ pc[a] = "broadcast" /\ cur[a].kind # "none"
        /\ Count(delivered[d], a, cur[a].seq) = 0

\* a broadcast is suspended on the full channel of another connection while
\* a second actor is inside a broadcast too
C18_Witness ==
    \E a \in Ids, d \in Ids, b \in Ids :
        /\ a # d /\ b # a
        /\ d \in DOMAIN fut[a] /\ fut[a][d] = "pending"
        /\ rxOpen[d] /\ Len(queue[d]) = QueueCap
        /\ pc[b] = "broadcast"

====
